---- MODULE Spec2Model ----
(***************************************************************************)
(* Model of src/app.py: the sliding-window stationarity analysis of gold   *)
(* futures prices (download, analizar_estacionariedad, generar_reporte,    *)
(* graficar) and the module-level script that chains them.                 *)
(*                                                                         *)
(* Numbers: p-values are in thousandths (50 is 0.05), Hurst exponents in   *)
(* hundredths (40 is 0.4), returns in whole percent, report percentages in *)
(* hundredths of a percent (6000 is "60.00").  A float is the record       *)
(* [nulo, v]; NaN and None are the record with nulo = TRUE.                *)
(*                                                                         *)
(* adfuller, kpss and compute_Hc are library routines: each call answers   *)
(* with a value or raises, chosen nondeterministically.                    *)
(***************************************************************************)
EXTENDS Integers, Sequences, FiniteSets, TLC

VARIABLES pc, datos, datos0, ventana_dias, fechas_unicas, i, resultados,
          resultados_df, reporte, excepcion, ventanas, llamadas, pasos

vars == <<pc, datos, datos0, ventana_dias, fechas_unicas, i, resultados,
          resultados_df, reporte, excepcion, ventanas, llamadas, pasos>>

----------------------------------------------------------------------------
(* Bounds of the model *)

\* calendar dates the downloaded period may span
MaxFechas == 3
\* largest window size analizar_estacionariedad is called with directly
MaxVentana == 3
\* largest Result Table handed directly to generar_reporte
MaxFilas == 5

(* Program constants *)

\* 15-minute bars in one calendar day (interval="15m")
BarrasPorDia == 96
\* ventana_dias the script passes
VentanaScript == 2
\* fewer valid prices than this: the window is skipped
MinPrecios == 2
\* fewer returns than this: compute_Hc is not called
MinHurst == 100
\* thresholds of generar_reporte: 0.05, 0.4, 0.6
UmbralP == 50
HurstMin == 40
HurstMax == 60

----------------------------------------------------------------------------
(* Values *)

Num(x) == [nulo |-> FALSE, v |-> x]
NaN == [nulo |-> TRUE, v |-> 0]
None == [nulo |-> TRUE, v |-> 0]

Max(a, b) == IF a >= b THEN a ELSE b

\* ascending sequence of the k in 1..Len(s) whose element is in the set S
PosicionesEn(s, S) == SelectSeq([k \in 1..Len(s) |-> k], LAMBDA k : s[k] \in S)

Elementos(s) == {s[k] : k \in 1..Len(s)}

----------------------------------------------------------------------------
(* DataFrames: an index, the column names in order, and the columns *)

DataFrameVacio == [index |-> <<>>, columns |-> <<>>, data |-> <<>>]

\* emptiness judged by the columns alone
empty_solo_columnas(df) == Len(df.columns) = 0

\* df.empty
empty(df) == Len(df.index) = 0 \/ Len(df.columns) = 0

\* df[col] = valores   (adds the column, or overwrites it, in place)
SetColumna(df, col, valores) ==
    [index |-> df.index,
     columns |-> IF col \in Elementos(df.columns) THEN df.columns
                 ELSE Append(df.columns, col),
     data |-> [c \in (DOMAIN df.data) \cup {col} |->
                  IF c = col THEN valores ELSE df.data[c]]]

\* timestamp.date()
date(ts) == ts \div BarrasPorDia

\* Series.unique(): first occurrences, in order of appearance
unique(s) ==
    LET primeras == SelectSeq([k \in 1..Len(s) |-> k],
                              LAMBDA k : \A j \in 1..(k - 1) : s[j] # s[k])
    IN [k \in 1..Len(primeras) |-> s[primeras[k]]]

\* sorted(...)
RECURSIVE sorted(_)
sorted(s) ==
    IF s = <<>> THEN <<>>
    ELSE LET m == CHOOSE x \in Elementos(s) : \A y \in Elementos(s) : x <= y
             k == CHOOSE j \in 1..Len(s) : s[j] = m
         IN <<m>> \o sorted(SubSeq(s, 1, k - 1) \o SubSeq(s, k + 1, Len(s)))

\* range with the "+ 1" of the bound lost
range_sin_uno(n) == Max(0, n - 1)

\* range(n) as the number of iterations it yields
range(n) == Max(0, n)

\* the slice taken one position late
Rebanada_desplazada(fechas, desde, w) ==
    SubSeq(fechas, desde + 2, IF desde + w + 1 > Len(fechas) THEN Len(fechas) ELSE desde + w + 1)

\* fechas_unicas[i:i + ventana_dias], i counted from 0
Rebanada(fechas, desde, w) ==
    SubSeq(fechas, desde + 1, IF desde + w > Len(fechas) THEN Len(fechas) ELSE desde + w)

----------------------------------------------------------------------------
(* The price series the data source may return *)

\* one calendar day of bars: how many valid prices, and which invalid bar
\* (if any) opens the day
Formas ==
    { [validos |-> 0,  malo |-> "ninguno"],     \* no bar on that date
      [validos |-> 0,  malo |-> "nan"],
      [validos |-> 1,  malo |-> "cero"],
      [validos |-> 50, malo |-> "ninguno"],
      [validos |-> 51, malo |-> "negativo"] }

Malo(m) == IF m = "nan" THEN NaN ELSE IF m = "cero" THEN Num(0) ELSE Num(0 - 5)

CierresDe(f) ==
    (IF f.malo = "ninguno" THEN <<>> ELSE <<Malo(f.malo)>>)
        \o [k \in 1..f.validos |-> Num(100 + (k % 3))]

RECURSIVE IndiceDe(_, _)
IndiceDe(fs, d) ==
    IF d > Len(fs) THEN <<>>
    ELSE [k \in 1..Len(CierresDe(fs[d])) |-> d * BarrasPorDia + (k - 1)]
             \o IndiceDe(fs, d + 1)

RECURSIVE CloseDe(_, _)
CloseDe(fs, d) ==
    IF d > Len(fs) THEN <<>>
    ELSE CierresDe(fs[d]) \o CloseDe(fs, d + 1)

\* the table yf.download returns for the given days
Serie(fs) ==
    [index |-> IndiceDe(fs, 1), columns |-> <<"Close">>,
     data |-> [Close |-> CloseDe(fs, 1)]]

SeriesPosibles == {Serie(fs) : fs \in [1..MaxFechas -> Formas]}

----------------------------------------------------------------------------
(* Library answers *)

Ok(x) == [exc |-> "ninguna", p |-> Num(x)]
Lanza(e) == [exc |-> e, p |-> None]

RespADF == {Ok(10), Lanza("Error")}
RespKPSS == {Ok(90), Lanza("ValueError"), Lanza("Error")}
RespHurst == {Ok(50), Lanza("FloatingPointError"), Lanza("Error")}

----------------------------------------------------------------------------
(* pruebas_estacionariedad and calcular_hurst *)

\* pruebas_estacionariedad without its except clause
pruebas_estacionariedad_sin_except(adf, kp) ==
    IF adf.exc # "ninguna"
    THEN [exc |-> adf.exc, ADF |-> None, KPSS |-> None, kpssLlamado |-> FALSE]
    ELSE IF kp.exc = "ninguna"
    THEN [exc |-> "ninguna", ADF |-> adf.p, KPSS |-> kp.p, kpssLlamado |-> TRUE]
    ELSE [exc |-> kp.exc, ADF |-> adf.p, KPSS |-> None, kpssLlamado |-> TRUE]

\* the dict pruebas_estacionariedad returns, or the exception that leaves it
pruebas_estacionariedad(adf, kp) ==
    IF adf.exc # "ninguna"
    THEN [exc |-> adf.exc, ADF |-> None, KPSS |-> None, kpssLlamado |-> FALSE]
    ELSE IF kp.exc = "ninguna"
    THEN [exc |-> "ninguna", ADF |-> adf.p, KPSS |-> kp.p, kpssLlamado |-> TRUE]
    ELSE IF kp.exc = "ValueError"
    THEN [exc |-> "ninguna", ADF |-> adf.p, KPSS |-> None, kpssLlamado |-> TRUE]
    ELSE [exc |-> kp.exc, ADF |-> adf.p, KPSS |-> None, kpssLlamado |-> TRUE]

\* calcular_hurst with the floor test written "<="
calcular_hurst_piso(n, h) ==
    IF n <= MinHurst
    THEN [exc |-> "ninguna", H |-> None, llamado |-> FALSE]
    ELSE IF h.exc = "ninguna"
    THEN [exc |-> "ninguna", H |-> h.p, llamado |-> TRUE]
    ELSE IF h.exc = "FloatingPointError"
    THEN [exc |-> "ninguna", H |-> None, llamado |-> TRUE]
    ELSE [exc |-> h.exc, H |-> None, llamado |-> TRUE]

\* what calcular_hurst returns for a series of n observations
calcular_hurst(n, h) ==
    IF n < MinHurst
    THEN [exc |-> "ninguna", H |-> None, llamado |-> FALSE]
    ELSE IF h.exc = "ninguna"
    THEN [exc |-> "ninguna", H |-> h.p, llamado |-> TRUE]
    ELSE IF h.exc = "FloatingPointError"
    THEN [exc |-> "ninguna", H |-> None, llamado |-> TRUE]
    ELSE [exc |-> h.exc, H |-> None, llamado |-> TRUE]

----------------------------------------------------------------------------
(* The body of the loop of analizar_estacionariedad *)

\* data[data['date'].isin(ventana)]['Close']
SubsetClose(df, ventana) ==
    LET pos == PosicionesEn(df.data["date"], Elementos(ventana))
    IN [k \in 1..Len(pos) |-> df.data["Close"][pos[k]]]

Positivo(x) == (~x.nulo) /\ x.v > 0
NoNulo(x) == ~x.nulo

\* subset['Close'][subset['Close'] > 0].dropna()
Precios(close) == SelectSeq(SelectSeq(close, Positivo), NoNulo)

\* precios.pct_change(): the first entry has no predecessor
pct_change(p) ==
    [k \in 1..Len(p) |->
        IF k = 1 THEN NaN
        ELSE Num(((p[k].v - p[k - 1].v) * 100) \div p[k - 1].v)]

\* precios.pct_change().dropna()
Retornos(p) == SelectSeq(pct_change(p), NoNulo)

\* the skip test letting a single price through
Omitir_laxo(p) == Len(p) < 1

\* len(precios) < 2
Omitir(p) == Len(p) < MinPrecios

\* s[a] + ... + s[b]
RECURSIVE SumaRango(_, _, _)
SumaRango(s, a, b) ==
    IF a > b THEN 0
    ELSE IF a = b THEN s[a]
    ELSE LET m == (a + b) \div 2
         IN SumaRango(s, a, m) + SumaRango(s, m + 1, b)

Suma(s) == SumaRango(s, 1, Len(s))

\* retornos.std(): sample standard deviation, NaN below two observations
std(r) ==
    IF Len(r) < 2 THEN NaN
    ELSE LET n == Len(r)
             media == Suma([k \in 1..n |-> r[k].v]) \div n
             cuad == Suma([k \in 1..n |-> (r[k].v - media) * (r[k].v - media)])
             var == cuad \div (n - 1)
         IN Num(CHOOSE s \in 0..(var + 1) : s * s <= var /\ var < (s + 1) * (s + 1))

\* the dict appended to resultados
Fila(ventana, est, hurst, vol) ==
    ("Inicio Ventana" :> ventana[1]) @@ ("Fin Ventana" :> ventana[Len(ventana)])
    @@ ("ADF p-value" :> est.ADF) @@ ("KPSS p-value" :> est.KPSS)
    @@ ("Hurst Exponent" :> hurst.H) @@ ("Volatilidad" :> vol)

Columnas ==
    <<"Inicio Ventana", "Fin Ventana", "ADF p-value", "KPSS p-value",
      "Hurst Exponent", "Volatilidad">>

\* pd.DataFrame(resultados): a list of no dicts gives a table of no columns
DataFrame(res) ==
    IF res = <<>> THEN DataFrameVacio
    ELSE [index |-> [k \in 1..Len(res) |-> k - 1],
          columns |-> Columnas,
          data |-> [c \in Elementos(Columnas) |-> [k \in 1..Len(res) |-> res[k][c]]]]

----------------------------------------------------------------------------
(* generar_reporte *)

MensajeSinInfo == "No hay suficiente información para realizar el análisis."

\* "<" written "<="
MenorQue_oigual(col, u) == [k \in 1..Len(col) |-> (~col[k].nulo) /\ col[k].v <= u]

\* elementwise comparisons of a column with a scalar: a null compares False
MenorQue(col, u) == [k \in 1..Len(col) |-> (~col[k].nulo) /\ col[k].v < u]
MayorQue(col, u) == [k \in 1..Len(col) |-> (~col[k].nulo) /\ col[k].v > u]
Y(a, b) == [k \in 1..Len(a) |-> a[k] /\ b[k]]

\* (boolean column).mean() * 100 as printed by {:.2f}, in hundredths
\* (no table of fewer than 32 rows gives a value halfway between two of them)
PorcentajeMedia(b) ==
    LET n == Len(b)
        c == Cardinality({k \in 1..n : b[k]})
    IN (2 * c * 10000 + n) \div (2 * n)

\* generar_reporte guarding the division instead of returning the message
generar_reporte_ceros(df) ==
    IF Len(df.index) = 0 THEN [texto |-> "Resumen del análisis", pct |-> <<0, 0, 0>>]
    ELSE [texto |-> "Resumen del análisis",
          pct |-> <<PorcentajeMedia(MenorQue(df.data["ADF p-value"], UmbralP)),
                    PorcentajeMedia(MayorQue(df.data["KPSS p-value"], UmbralP)),
                    PorcentajeMedia(Y(MayorQue(df.data["Hurst Exponent"], HurstMin),
                                      MenorQue(df.data["Hurst Exponent"], HurstMax)))>>]

generar_reporte(df) ==
    IF empty(df) THEN [texto |-> MensajeSinInfo, pct |-> <<>>]
    ELSE LET estacionario_adf == PorcentajeMedia(MenorQue(df.data["ADF p-value"], UmbralP))
             estacionario_kpss == PorcentajeMedia(MayorQue(df.data["KPSS p-value"], UmbralP))
             hurst_estacionario ==
                 PorcentajeMedia(Y(MayorQue(df.data["Hurst Exponent"], HurstMin),
                                   MenorQue(df.data["Hurst Exponent"], HurstMax)))
         IN [texto |-> "Resumen del análisis",
             pct |-> <<estacionario_adf, estacionario_kpss, hurst_estacionario>>]

----------------------------------------------------------------------------
(* analizar_estacionariedad *)

Llamada(fn, k, e) == [fn |-> fn, ventana |-> k, exc |-> e]

\* lines 41-43: the date column is written into the table passed in
AnalizarInicio ==
    /\ pc = "analizar"
    /\ resultados' = <<>>
    /\ LET fechas == [k \in 1..Len(datos.index) |-> date(datos.index[k])]
       IN /\ datos' = SetColumna(datos, "date", fechas)
          /\ fechas_unicas' = sorted(unique(fechas))
    /\ i' = 0
    /\ pasos' = Append(pasos, "analizar_estacionariedad")
    /\ pc' = "bucle"
    /\ UNCHANGED <<datos0, ventana_dias, resultados_df, reporte, excepcion,
                   ventanas, llamadas>>

\* lines 44-60: one pass of the loop
Iterar ==
    /\ pc = "bucle"
    /\ i < range(Len(fechas_unicas) - ventana_dias + 1)
    /\ LET ventana == Rebanada(fechas_unicas, i, ventana_dias)
           precios == Precios(SubsetClose(datos, ventana))
           retornos == Retornos(precios)
           volatilidad == std(retornos)
       IN /\ ventanas' = Append(ventanas, ventana)
          /\ IF Omitir(precios)
             THEN /\ i' = i + 1
                  /\ UNCHANGED <<pc, resultados, excepcion, llamadas>>
             ELSE \E adf \in RespADF, kp \in RespKPSS, h \in RespHurst :
                   LET est == pruebas_estacionariedad(adf, kp)
                       hu == calcular_hurst(Len(retornos), h)
                       l1 == <<Llamada("adfuller", i, adf.exc)>>
                       l2 == IF est.kpssLlamado
                             THEN <<Llamada("kpss", i, kp.exc)>> ELSE <<>>
                       l3 == IF est.exc = "ninguna" /\ hu.llamado
                             THEN <<Llamada("compute_Hc", i, h.exc)>> ELSE <<>>
                   IN /\ llamadas' = llamadas \o l1 \o l2 \o l3
                      /\ IF est.exc # "ninguna"
                         THEN /\ pc' = "abortado"
                              /\ excepcion' = IF est.kpssLlamado THEN "kpss" ELSE "adfuller"
                              /\ UNCHANGED <<i, resultados>>
                         ELSE IF hu.exc # "ninguna"
                         THEN /\ pc' = "abortado"
                              /\ excepcion' = "compute_Hc"
                              /\ UNCHANGED <<i, resultados>>
                         ELSE /\ resultados' = Append(resultados, Fila(ventana, est, hu, volatilidad))
                              /\ i' = i + 1
                              /\ UNCHANGED <<pc, excepcion>>
    /\ UNCHANGED <<datos, datos0, ventana_dias, fechas_unicas, resultados_df,
                   reporte, pasos>>

\* line 61: the loop is over, the list becomes the Result Table
AnalizarFin ==
    /\ pc = "bucle"
    /\ ~(i < range(Len(fechas_unicas) - ventana_dias + 1))
    /\ resultados_df' = DataFrame(resultados)
    /\ pc' = "analizado"
    /\ UNCHANGED <<datos, datos0, ventana_dias, fechas_unicas, i, resultados,
                   reporte, excepcion, ventanas, llamadas, pasos>>

----------------------------------------------------------------------------
(* The script, lines 93-113 *)

\* lines 94-95
Descargar ==
    /\ pc = "inicio"
    /\ \E d \in SeriesPosibles : datos' = d /\ datos0' = d
    /\ pasos' = Append(pasos, "descargar_datos_oro")
    /\ pc' = "descargado"
    /\ UNCHANGED <<ventana_dias, fechas_unicas, i, resultados, resultados_df,
                   reporte, excepcion, ventanas, llamadas>>

\* lines 96-97
SinDatos ==
    /\ pc = "descargado"
    /\ empty(datos)
    /\ pasos' = Append(pasos, "st.error")
    /\ pc' = "fin"
    /\ UNCHANGED <<datos, datos0, ventana_dias, fechas_unicas, i, resultados,
                   resultados_df, reporte, excepcion, ventanas, llamadas>>

\* lines 98-104: the call passes ventana_dias=2
ConDatos ==
    /\ pc = "descargado"
    /\ ~empty(datos)
    /\ pasos' = Append(pasos, "st.success")
    /\ ventana_dias' = VentanaScript
    /\ pc' = "analizar"
    /\ UNCHANGED <<datos, datos0, fechas_unicas, i, resultados, resultados_df,
                   reporte, excepcion, ventanas, llamadas>>

\* lines 108-109
Reportar ==
    /\ pc = "analizado"
    /\ reporte' = generar_reporte(resultados_df)
    /\ pasos' = Append(pasos, "generar_reporte")
    /\ pc' = "reportado"
    /\ UNCHANGED <<datos, datos0, ventana_dias, fechas_unicas, i, resultados,
                   resultados_df, excepcion, ventanas, llamadas>>

\* df[col] raises KeyError when the table has no such column
TieneColumnas(df, cols) == cols \subseteq Elementos(df.columns)

\* lines 112-113 and 78-87
Graficar ==
    /\ pc = "reportado"
    /\ pasos' = Append(pasos, "graficar")
    /\ IF TieneColumnas(resultados_df, {"Inicio Ventana", "ADF p-value", "KPSS p-value"})
       THEN pc' = "fin" /\ UNCHANGED excepcion
       ELSE pc' = "abortado" /\ excepcion' = "KeyError"
    /\ UNCHANGED <<datos, datos0, ventana_dias, fechas_unicas, i, resultados,
                   resultados_df, reporte, ventanas, llamadas>>

----------------------------------------------------------------------------
(* Specifications *)

Limpio ==
    /\ fechas_unicas = <<>>
    /\ i = 0
    /\ resultados = <<>>
    /\ resultados_df = DataFrameVacio
    /\ reporte = [texto |-> "", pct |-> <<>>]
    /\ excepcion = "ninguna"
    /\ ventanas = <<>>
    /\ llamadas = <<>>
    /\ pasos = <<>>

\* the script, run from the top
Init ==
    /\ pc = "inicio"
    /\ datos = DataFrameVacio
    /\ datos0 = DataFrameVacio
    /\ ventana_dias = VentanaScript
    /\ Limpio

Next ==
    \/ Descargar
    \/ SinDatos
    \/ ConDatos
    \/ AnalizarInicio
    \/ Iterar
    \/ AnalizarFin
    \/ Reportar
    \/ Graficar

Spec == Init /\ [][Next]_vars

\* analizar_estacionariedad called on any series with any window size
InitAnalizar ==
    /\ pc = "analizar"
    /\ datos \in SeriesPosibles
    /\ datos0 = datos
    /\ ventana_dias \in 1..MaxVentana
    /\ Limpio

NextAnalizar ==
    \/ AnalizarInicio
    \/ Iterar
    \/ AnalizarFin

SpecAnalizar == InitAnalizar /\ [][NextAnalizar]_vars

\* generar_reporte called on any Result Table
ValoresFila ==
    { <<Num(49), Num(51), Num(50)>>,
      <<Num(50), Num(50), Num(40)>>,
      <<Num(49), None, Num(60)>>,
      <<Num(50), Num(51), None>>,
      <<None, Num(50), Num(50)>>,
      <<None, None, None>> }

FilasPosibles ==
    { Fila(<<1, 2>>, [ADF |-> t[1], KPSS |-> t[2]], [H |-> t[3]], Num(1)) : t \in ValoresFila }

TablasPosibles ==
    UNION { [1..n -> FilasPosibles] : n \in 0..MaxFilas }

InitReporte ==
    /\ pc = "analizado"
    /\ datos = DataFrameVacio
    /\ datos0 = DataFrameVacio
    /\ ventana_dias = VentanaScript
    /\ fechas_unicas = <<>>
    /\ i = 0
    /\ resultados \in TablasPosibles
    /\ resultados_df = DataFrame(resultados)
    /\ reporte = [texto |-> "", pct |-> <<>>]
    /\ excepcion = "ninguna"
    /\ ventanas = <<>>
    /\ llamadas = <<>>
    /\ pasos = <<>>

NextReporte == Reportar

SpecReporte == InitReporte /\ [][NextReporte]_vars

----------------------------------------------------------------------------
(* What the claims are stated in: read off the series as it was fetched *)

\* the distinct calendar dates of the fetched series
FechasDe(df) == {df.index[k] \div BarrasPorDia : k \in 1..Len(df.index)}

\* the same dates in increasing order
FechasOrdenadas(df) ==
    LET S == FechasDe(df)
    IN CHOOSE f \in [1..Cardinality(S) -> S] : \A a, b \in 1..Cardinality(S) : a < b => f[a] < f[b]

\* how many windows of w distinct dates fit
VentanasEsperadas(df, w) == Max(0, Cardinality(FechasDe(df)) - w + 1)

\* positive, non-missing prices on the dates of a window
ValidosEn(df, ventana) ==
    Cardinality({k \in 1..Len(df.index) :
                    /\ df.index[k] \div BarrasPorDia \in Elementos(ventana)
                    /\ ~df.data["Close"][k].nulo
                    /\ df.data["Close"][k].v > 0})

\* the rows emitted for the window that starts on date f
FilasDe(f) == {k \in 1..Len(resultados) : resultados[k]["Inicio Ventana"] = f}

\* the library calls made for the j-th window (j counted from 1)
LlamadasDe(j, fn) == {k \in 1..Len(llamadas) : llamadas[k].ventana = j - 1 /\ llamadas[k].fn = fn}

----------------------------------------------------------------------------
\* C1: for every window size w >= 1 and every series with d distinct dates,
\* analizar_estacionariedad iterates over exactly max(0, d - w + 1) windows;
\* with d < w (the empty series included) it iterates over none and raises
\* no error.
C1_NumeroDeVentanas ==
    /\ Len(ventanas) <= VentanasEsperadas(datos0, ventana_dias)
    /\ pc = "analizado" => Len(ventanas) = VentanasEsperadas(datos0, ventana_dias)
    /\ Cardinality(FechasDe(datos0)) < ventana_dias =>
           /\ ventanas = <<>>
           /\ excepcion = "ninguna"
           /\ pc # "abortado"

C1_Witness ==
    /\ pc = "analizado"
    /\ ventana_dias = 2
    /\ Cardinality(FechasDe(datos0)) = 3
    /\ Len(ventanas) = 2

\* C2: once analizar_estacionariedad has finished, the Result Table has no
\* row for a window with fewer than 2 positive non-missing prices, exactly one
\* row for every other window, and the windows after a skipped one were
\* still evaluated.
C2_FilasPorVentana ==
    pc = "analizado" =>
        /\ Len(ventanas) = VentanasEsperadas(datos0, ventana_dias)
        /\ \A j \in 1..Len(ventanas) :
              Cardinality(FilasDe(ventanas[j][1])) =
                  IF ValidosEn(datos0, ventanas[j]) < 2 THEN 0 ELSE 1
        /\ Len(resultados) = Len(ventanas)
              - Cardinality({j \in 1..Len(ventanas) : ValidosEn(datos0, ventanas[j]) < 2})
        /\ Len(resultados_df.index) = Len(resultados)

C2_Witness ==
    /\ pc = "analizado"
    /\ \E j \in 1..Len(ventanas) :
          /\ ValidosEn(datos0, ventanas[j]) = 1
          /\ \E m \in (j + 1)..Len(ventanas) : FilasDe(ventanas[m][1]) # {}

\* rows of the Result Table whose column value is non-null and satisfies P
Cuenta(df, col, P(_)) ==
    Cardinality({k \in 1..Len(df.index) : (~df.data[col][k].nulo) /\ P(df.data[col][k].v)})

\* v is 100 * c / n to two decimals (v in hundredths of a percent)
EsPorcentaje(v, c, n) == 2 * n * v - 20000 * c \in (0 - n)..n

\* C3: on a non-empty Result Table each percentage of generar_reporte is
\* 100 * (rows whose value is non-null and strictly passes the threshold) /
\* (all rows); a null row counts in the denominator only, and any mix of
\* null and non-null values yields a report.
C3_Porcentajes ==
    (pc = "reportado" /\ Len(resultados_df.index) > 0) =>
        LET n == Len(resultados_df.index)
        IN /\ Len(reporte.pct) = 3
           /\ EsPorcentaje(reporte.pct[1],
                           Cuenta(resultados_df, "ADF p-value", LAMBDA x : x < 50), n)
           /\ EsPorcentaje(reporte.pct[2],
                           Cuenta(resultados_df, "KPSS p-value", LAMBDA x : x > 50), n)
           /\ EsPorcentaje(reporte.pct[3],
                           Cuenta(resultados_df, "Hurst Exponent", LAMBDA x : 40 < x /\ x < 60), n)

\* five rows, three of them with an ADF p-value below 0.05, one of the others null
C3_Witness ==
    /\ pc = "reportado"
    /\ Len(resultados_df.index) = 5
    /\ reporte.pct[1] = 6000
    /\ \E k \in 1..5 : resultados_df.data["ADF p-value"][k].nulo
    /\ \E k \in 1..5 : resultados_df.data["KPSS p-value"][k].nulo

\* C4 as stated: whenever kpss or compute_Hc fails on a window, the failure
\* is not propagated.
C4_TodaFallaAbsorbida ==
    \A k \in 1..Len(llamadas) :
        (llamadas[k].fn \in {"kpss", "compute_Hc"} /\ llamadas[k].exc # "ninguna")
            => pc # "abortado"

\* C4 amended: a ValueError of kpss or a FloatingPointError of compute_Hc is
\* not propagated; unless a later routine aborts the same window, a row for
\* the window is appended with that field null and the ADF p-value set, and
\* the remaining windows are still evaluated.
C4_FallaRecuperable ==
    /\ \A k \in 1..Len(llamadas) :
          LET l == llamadas[k]
              f == ventanas[l.ventana + 1][1]
          IN /\ (l.fn = "kpss" /\ l.exc = "ValueError") =>
                    /\ ~(pc = "abortado" /\ excepcion = "kpss" /\ l.ventana = i)
                    /\ \/ pc = "abortado" /\ excepcion = "compute_Hc" /\ l.ventana = i
                       \/ \E r \in FilasDe(f) :
                              /\ resultados[r]["KPSS p-value"].nulo
                              /\ ~resultados[r]["ADF p-value"].nulo
             /\ (l.fn = "compute_Hc" /\ l.exc = "FloatingPointError") =>
                    /\ ~(pc = "abortado" /\ excepcion = "compute_Hc" /\ l.ventana = i)
                    /\ \E r \in FilasDe(f) :
                           /\ resultados[r]["Hurst Exponent"].nulo
                           /\ ~resultados[r]["ADF p-value"].nulo
    /\ (pc = "analizado" /\ llamadas # <<>>) =>
           Len(ventanas) = VentanasEsperadas(datos0, ventana_dias)

\* kpss and compute_Hc both fail on the first window, and a later window follows
C4_Witness ==
    /\ pc = "analizado"
    /\ Len(ventanas) >= 2
    /\ \E k \in 1..Len(llamadas) :
          /\ llamadas[k].fn = "kpss" /\ llamadas[k].exc = "ValueError"
          /\ llamadas[k].ventana = 0
    /\ \E k \in 1..Len(llamadas) :
          /\ llamadas[k].fn = "compute_Hc" /\ llamadas[k].exc = "FloatingPointError"
          /\ llamadas[k].ventana = 0
    /\ Len(resultados) = Len(ventanas)

\* C5: when the fetch returns an empty table the script shows the error and
\* ends without analysis, report or chart; these steps only ever run after a
\* non-empty fetch.
C5_SinDatosNoAnaliza ==
    /\ (pc \notin {"inicio", "descargado"} /\ Len(datos0.index) = 0) =>
           /\ pc = "fin"
           /\ pasos = <<"descargar_datos_oro", "st.error">>
           /\ ~ENABLED Next
    /\ (\E k \in 1..Len(pasos) :
            pasos[k] \in {"analizar_estacionariedad", "generar_reporte", "graficar"}) =>
           /\ Len(datos0.index) > 0
           /\ pasos[1] = "descargar_datos_oro"
           /\ "st.error" \notin Elementos(pasos)

C5_Witness ==
    /\ pc = "fin"
    /\ Len(datos0.index) = 0
    /\ pasos = <<"descargar_datos_oro", "st.error">>

\* C6: on an empty Result Table generar_reporte returns exactly the fixed
\* insufficient-information message and computes no percentage.
C6_TablaVacia ==
    (pc = "reportado" /\ Len(resultados) = 0) =>
        /\ reporte.texto = "No hay suficiente información para realizar el análisis."
        /\ reporte.pct = <<>>

C6_Witness ==
    /\ pc = "reportado"
    /\ Len(resultados) = 0
    /\ reporte.texto = MensajeSinInfo

\* observations in the return series of a window
LargoRetornos(ventana) == ValidosEn(datos0, ventana) - 1

\* the window a row was emitted for (j counted from 1)
VentanaDeFila(r) ==
    CHOOSE j \in 1..Len(ventanas) : ventanas[j][1] = resultados[r]["Inicio Ventana"]

\* C7 as stated: a row whose return series has fewer than 100 observations
\* has a null Hurst exponent, no compute_Hc call, and both p-values set; with
\* 100 or more observations compute_Hc is called.
C7_PisoHurstAmbosP ==
    \A r \in 1..Len(resultados) :
        LET j == VentanaDeFila(r)
        IN IF LargoRetornos(ventanas[j]) < 100
           THEN /\ resultados[r]["Hurst Exponent"].nulo
                /\ LlamadasDe(j, "compute_Hc") = {}
                /\ ~resultados[r]["ADF p-value"].nulo
                /\ ~resultados[r]["KPSS p-value"].nulo
           ELSE LlamadasDe(j, "compute_Hc") # {}

\* C7 amended: as above, except that the KPSS p-value of the row is set
\* unless kpss itself raised ValueError on that window, in which case it is
\* null.
C7_PisoHurst ==
    \A r \in 1..Len(resultados) :
        LET j == VentanaDeFila(r)
            kpssFallo == \E k \in LlamadasDe(j, "kpss") : llamadas[k].exc = "ValueError"
        IN IF LargoRetornos(ventanas[j]) < 100
           THEN /\ resultados[r]["Hurst Exponent"].nulo
                /\ LlamadasDe(j, "compute_Hc") = {}
                /\ ~resultados[r]["ADF p-value"].nulo
                /\ resultados[r]["KPSS p-value"].nulo <=> kpssFallo
           ELSE Cardinality(LlamadasDe(j, "compute_Hc")) = 1

\* one row on 99 returns with both p-values, the next on exactly 100 returns
C7_Witness ==
    /\ Len(resultados) >= 2
    /\ LargoRetornos(ventanas[VentanaDeFila(1)]) = 99
    /\ resultados[1]["Hurst Exponent"].nulo
    /\ ~resultados[1]["KPSS p-value"].nulo
    /\ LargoRetornos(ventanas[VentanaDeFila(2)]) = 100
    /\ ~resultados[2]["Hurst Exponent"].nulo

\* C8: analizar_estacionariedad leaves the series it is given unchanged:
\* same columns and same values after the call as before it.
C8_SerieIntacta ==
    pc \in {"bucle", "analizado"} =>
        /\ datos.columns = datos0.columns
        /\ datos.index = datos0.index
        /\ DOMAIN datos.data = DOMAIN datos0.data

\* C9: the i-th window is the w consecutive entries, from position i, of the
\* sorted list of distinct dates; consecutive windows share exactly w - 1
\* dates; every start where a full window fits is covered once, in
\* increasing order; each row records the first and last date of its window.
C9_Ventanas ==
    LET F == FechasOrdenadas(datos0)
        w == ventana_dias
    IN /\ \A j \in 1..Len(ventanas) :
             /\ Len(ventanas[j]) = w
             /\ \A m \in 1..w : ventanas[j][m] = F[j + m - 1]
       /\ \A j \in 1..(Len(ventanas) - 1) :
             Cardinality(Elementos(ventanas[j]) \cap Elementos(ventanas[j + 1])) = w - 1
       /\ pc = "analizado" => Len(ventanas) = Max(0, Len(F) - w + 1)
       /\ \A r \in 1..Len(resultados) :
             \E j \in 1..Len(ventanas) :
                /\ resultados[r]["Inicio Ventana"] = F[j]
                /\ resultados[r]["Fin Ventana"] = F[j + w - 1]
       /\ \A r \in 1..(Len(resultados) - 1) :
             resultados[r]["Inicio Ventana"] < resultados[r + 1]["Inicio Ventana"]

\* two windows of two dates over three dates, both with a row
C9_Witness ==
    /\ pc = "analizado"
    /\ ventana_dias = 2
    /\ ventanas = <<<<1, 2>>, <<2, 3>>>>
    /\ Len(resultados) = 2
    /\ resultados[2]["Inicio Ventana"] = 2
    /\ resultados[2]["Fin Ventana"] = 3

\* C10: a run with a non-empty fetch in which no statistical routine raises
\* runs analysis, report and chart in that order and ends normally after the
\* chart, also when the Result Table is empty.
C10_TerminaNormal ==
    (/\ pc \in {"fin", "abortado"}
     /\ Len(datos0.index) > 0
     /\ excepcion \notin {"adfuller", "kpss", "compute_Hc"}) =>
        /\ pc = "fin"
        /\ excepcion = "ninguna"
        /\ pasos = <<"descargar_datos_oro", "st.success", "analizar_estacionariedad",
                     "generar_reporte", "graficar">>

====
